---- MODULE Spec2Model ----
(***************************************************************************)
(* fontconfig-parser: the merge/include engine (types/document.rs), the    *)
(* streaming parser (lib.rs) and the tree-walk parser (parser.rs).         *)
(*                                                                         *)
(* Five specifications share the variables of this module:                 *)
(*   Spec        FontConfig::merge_config / FontConfig::include            *)
(*   SpecCycle   the same, on files that are read again when included again*)
(*   SpecStream  DocumentReader::read_document                             *)
(*   SpecSub     read_document's second loop with read_match, read_value   *)
(*               and read_config                                           *)
(*   SpecTree    parse_document / parse_expr                               *)
(* Each leaves the variables of the others at their idle values.           *)
(***************************************************************************)
EXTENDS Integers, Sequences, FiniteSets, TLC

VARIABLES
    acc,        \* the FontConfig accumulator (&mut self)
    stack,      \* activations of merge_config / include, innermost last
    result,     \* what the top-level merge_config returned: "none", "running", "Ok", "Err"
    stderr,     \* the eprintln! lines of merge_config, as the labels of the includes named
    calls,      \* number of top-level merge_config calls made on this accumulator
    used,       \* number of items drawn from the parse_config iterators so far
    folded,     \* history: the ConfigParts folded into the accumulator, in fold order
    last,       \* history: the step taken last
    fs,         \* the files read so far, each with the items its parse has yielded
    sr,         \* the streaming parser (read_document)
    tw          \* the tree-walk parser (parse_document / parse_expr)

vars == <<acc, stack, result, stderr, calls, used, folded, last, fs, sr, tw>>

mergeVars == <<acc, stack, result, stderr, calls, used, folded, last>>

\* ------------------------------------------------------------------ bounds

\* Items (fragments, failures) drawn from all parse_config iterators of a run.
MaxItems == 3
\* Top-level merge_config calls on one accumulator.
MaxCalls == 2

\* The names a directory's entries may have, each written as its leading
\* number (05-b.conf, 10-a.conf): the names compare as the numbers do.
EntryNames == {5, 10}

\* ------------------------------------------------------------------ helpers

Top(s) == s[Len(s)]

Pop(s) == SubSeq(s, 1, Len(s) - 1)

SetTop(s, f) == [s EXCEPT ![Len(s)] = f]

\* The sequences without repetition over the set S.
RECURSIVE Perms(_)
Perms(S) ==
    IF S = {} THEN {<<>>}
    ELSE UNION {{<<x>> \o p : p \in Perms(S \ {x})} : x \in S}

\* A component of the place a file, an entry or a fragment has in a run:
\* the n-th top-level call, the n-th fragment of a file, the entry named n.
Comp(k, n) == [k |-> k, n |-> n]

\* ------------------------------------------------------------------ ConfigPart

\* The variants of ConfigPart that are folded without recursion.
LeafKinds ==
    {"Alias", "Config", "Description", "Dir", "CacheDir", "Match",
     "ResetDirs", "SelectFont", "RemapDir"}

\* A fragment of kind k read at place src; its payload is named by the place.
Part(k, src) == [kind |-> k, src |-> src]

\* FontConfig::default()
EmptyConfig ==
    [select_fonts |-> <<>>, dirs |-> <<>>, cache_dirs |-> <<>>, remap_dirs |-> <<>>,
     matches |-> <<>>, rescans |-> <<>>, blanks |-> <<>>, aliases |-> <<>>]

\* A mutant of FoldPart: a match or an alias is put in front of the list.
FoldPartPrepend(a, p) ==
    CASE p.kind = "Alias"       -> [a EXCEPT !.aliases = <<p.src>> \o @]
      [] p.kind = "Config"      -> [a EXCEPT !.rescans = @ \o <<p.src>>,
                                             !.blanks = @ \o <<p.src>>]
      [] p.kind = "Description" -> a
      [] p.kind = "Dir"         -> [a EXCEPT !.dirs = Append(@, p.src)]
      [] p.kind = "CacheDir"    -> [a EXCEPT !.cache_dirs = Append(@, p.src)]
      [] p.kind = "Match"       -> [a EXCEPT !.matches = <<p.src>> \o @]
      [] p.kind = "ResetDirs"   -> [a EXCEPT !.dirs = <<>>]
      [] p.kind = "SelectFont"  -> [a EXCEPT !.select_fonts = Append(@, p.src)]
      [] p.kind = "RemapDir"    -> [a EXCEPT !.remap_dirs = Append(@, p.src)]

\* A mutant of FoldPart: ResetDirs clears the cache directories too.
FoldPartResetAll(a, p) ==
    CASE p.kind = "Alias"       -> [a EXCEPT !.aliases = Append(@, p.src)]
      [] p.kind = "Config"      -> [a EXCEPT !.rescans = @ \o <<p.src>>,
                                             !.blanks = @ \o <<p.src>>]
      [] p.kind = "Description" -> a
      [] p.kind = "Dir"         -> [a EXCEPT !.dirs = Append(@, p.src)]
      [] p.kind = "CacheDir"    -> [a EXCEPT !.cache_dirs = Append(@, p.src)]
      [] p.kind = "Match"       -> [a EXCEPT !.matches = Append(@, p.src)]
      [] p.kind = "ResetDirs"   -> [a EXCEPT !.dirs = <<>>, !.cache_dirs = <<>>]
      [] p.kind = "SelectFont"  -> [a EXCEPT !.select_fonts = Append(@, p.src)]
      [] p.kind = "RemapDir"    -> [a EXCEPT !.remap_dirs = Append(@, p.src)]

\* The arms of merge_config's match on a fragment, the Include arm aside.
FoldPart(a, p) ==
    CASE p.kind = "Alias"       -> [a EXCEPT !.aliases = Append(@, p.src)]
      [] p.kind = "Config"      -> [a EXCEPT !.rescans = @ \o <<p.src>>,
                                             !.blanks = @ \o <<p.src>>]
      [] p.kind = "Description" -> a
      [] p.kind = "Dir"         -> [a EXCEPT !.dirs = Append(@, p.src)]
      [] p.kind = "CacheDir"    -> [a EXCEPT !.cache_dirs = Append(@, p.src)]
      [] p.kind = "Match"       -> [a EXCEPT !.matches = Append(@, p.src)]
      [] p.kind = "ResetDirs"   -> [a EXCEPT !.dirs = <<>>]
      [] p.kind = "SelectFont"  -> [a EXCEPT !.select_fonts = Append(@, p.src)]
      [] p.kind = "RemapDir"    -> [a EXCEPT !.remap_dirs = Append(@, p.src)]

\* ------------------------------------------------------------------ BinaryHeap

\* Exchange the elements at i and j.
Swap(d, i, j) == [d EXCEPT ![i] = d[j], ![j] = d[i]]

RECURSIVE SiftDown(_, _)
\* BinaryHeap::sift_down: move the element at p down until neither child is
\* greater (positions from 1: the children of p are 2p and 2p+1).
SiftDown(d, p) ==
    LET n == Len(d)
        l == 2 * p
    IN  IF l + 1 <= n
        THEN LET c == IF d[l] <= d[l + 1] THEN l + 1 ELSE l
             IN  IF d[p] >= d[c] THEN d ELSE SiftDown(Swap(d, p, c), c)
        ELSE IF l = n /\ d[p] < d[l] THEN Swap(d, p, l)
        ELSE d

RECURSIVE RebuildFrom(_, _)
\* BinaryHeap::rebuild: sift down the positions len/2 .. 1, last first.
RebuildFrom(d, p) == IF p = 0 THEN d ELSE RebuildFrom(SiftDown(d, p), p - 1)

\* collect::<BinaryHeap<_>>() of the paths in enumeration order.
HeapFrom(v) == RebuildFrom(v, Len(v) \div 2)

RECURSIVE KeepFiles(_)
\* The filter_map of include: the entries that are files or symlinks.
KeepFiles(listing) ==
    IF listing = <<>> THEN <<>>
    ELSE IF listing[1].ty \in {"file", "symlink"}
         THEN <<listing[1].name>> \o KeepFiles(Tail(listing))
         ELSE KeepFiles(Tail(listing))

\* The order in which include visits the entries of a directory: the
\* BinaryHeap's own order of storage (IntoIterator for BinaryHeap).
IterOrder(listing) == HeapFrom(KeepFiles(listing))

\* What read_dir may yield: every enumeration order of every set of entries,
\* each entry a file, a symlink or a directory.
Listings ==
    UNION {UNION {{[i \in 1..Len(p) |-> [name |-> p[i], ty |-> t[i]]] :
                      t \in [1..Len(p) -> {"file", "symlink", "dir"}]} :
                  p \in Perms(S)} :
           S \in SUBSET EntryNames}

\* The orders in which include may visit a directory of the listings.
DirOrders == {IterOrder(l) : l \in Listings}

\* ------------------------------------------------------------------ activations

\* An activation of merge_config on the file at place `at`: idx fragments are
\* folded; ign is the ignore_missing flag of the Include being resolved; hard
\* records that an Include without ignore_missing failed in this activation.
MergeFrame(at) ==
    [fn |-> "merge_config", at |-> at, idx |-> 0, ign |-> FALSE, hard |-> FALSE,
     order |-> <<>>, next |-> 0]

\* An activation of include on a directory: `order` is the order of the for
\* loop over config_paths, `next` the position of the entry it visits next.
DirFrame(at, order) ==
    [fn |-> "include", at |-> at, idx |-> 0, ign |-> FALSE, hard |-> FALSE,
     order |-> order, next |-> 1]

\* The place of the fragment the activation f reads next.
NextPlace(f) == f.at \o <<Comp("part", f.idx + 1)>>

Step(op, at, ign, res, hard) ==
    [op |-> op, at |-> at, ign |-> ign, res |-> res, hard |-> hard]

\* A mutant of IncludeArm: the error of a failed include is returned (`?`).
IncludeArmPropagate(res, ign) ==
    IF res = "Err"
    THEN [log |-> FALSE, ret |-> "Err"]
    ELSE [log |-> FALSE, ret |-> "continue"]

\* A mutant of IncludeArm: the error of a failed include is dropped silently.
IncludeArmSilent(res, ign) == [log |-> FALSE, ret |-> "continue"]

\* merge_config's match on what self.include returned: an error is printed
\* unless the Include has ignore_missing, and the loop goes on either way.
IncludeArm(res, ign) ==
    [log |-> (res = "Err" /\ ~ign), ret |-> "continue"]

\* A mutant of EntryArm: the failure of an entry ends the directory include.
EntryArmPropagate(res) == IF res = "Err" THEN "Err" ELSE "continue"

\* include's loop over a directory: self.merge_config(&config_path).ok()
EntryArm(res) == "continue"

RECURSIVE Returned(_, _, _, _)
RECURSIVE IncludeReturned(_, _, _, _, _)

\* self.include(&include_path), for the Include at place `at` with flag ign,
\* has returned res to the merge_config activation on top of stk.
IncludeReturned(stk, res, ign, log, at) ==
    LET c == Top(stk)
        arm == IncludeArm(res, ign)
        log2 == IF arm.log THEN Append(log, at) ELSE log
    IN  IF arm.ret = "continue"
        THEN [stack |-> SetTop(stk, [c EXCEPT !.idx = @ + 1, !.ign = FALSE,
                                              !.hard = @ \/ (res = "Err" /\ ~ign)]),
              result |-> "running", stderr |-> log2]
        ELSE Returned(Pop(stk), "Err", log2, c.at)

\* A merge_config activation on the file at place `at` has returned res to
\* the activation on top of stk (to the first caller when stk is empty).
Returned(stk, res, log, at) ==
    IF stk = <<>>
    THEN [stack |-> <<>>, result |-> res, stderr |-> log]
    ELSE LET c == Top(stk)
         IN  IF c.fn = "include"
             THEN IF EntryArm(res) = "continue"
                  THEN [stack |-> stk, result |-> "running", stderr |-> log]
                  ELSE IncludeReturned(Pop(stk), "Err", Top(Pop(stk)).ign, log, c.at)
             ELSE IncludeReturned(stk, res, c.ign, log, at)

\* ------------------------------------------------------------------ merge_config

MergeIdle ==
    /\ acc = EmptyConfig
    /\ stack = <<>>
    /\ result = "none"
    /\ stderr = <<>>
    /\ calls = 0
    /\ used = 0
    /\ folded = <<>>
    /\ last = Step("Init", <<>>, FALSE, "-", FALSE)
    /\ fs = <<>>

InMerge == stack # <<>> /\ Top(stack).fn = "merge_config"

\* The caller calls merge_config on a file, on the accumulator as it stands.
TopCall ==
    /\ stack = <<>>
    /\ calls < MaxCalls
    /\ calls' = calls + 1
    /\ stack' = <<MergeFrame(<<Comp("call", calls + 1)>>)>>
    /\ result' = "running"
    /\ last' = Step("TopCall", <<Comp("call", calls + 1)>>, FALSE, "-", FALSE)
    /\ UNCHANGED <<fs, sr, tw, acc, stderr, used, folded>>

\* The iterator yields a fragment other than an Include: it is folded.
FoldLeaf ==
    /\ InMerge
    /\ used < MaxItems
    /\ \E k \in LeafKinds :
        LET f == Top(stack)
            p == Part(k, NextPlace(f))
        IN  /\ acc' = FoldPart(acc, p)
            /\ folded' = Append(folded, p)
            /\ stack' = SetTop(stack, [f EXCEPT !.idx = @ + 1])
            /\ last' = Step("FoldLeaf", p.src, FALSE, "-", FALSE)
    /\ used' = used + 1
    /\ UNCHANGED <<fs, sr, tw, result, stderr, calls>>

\* A mutant of Fail: the accumulator is reset when merge_config fails.
FailRollback ==
    /\ InMerge
    /\ used < MaxItems
    /\ LET f == Top(stack)
           r == Returned(Pop(stack), "Err", stderr, f.at)
       IN  /\ stack' = r.stack
           /\ result' = r.result
           /\ stderr' = r.stderr
           /\ last' = Step("Fail", f.at, FALSE, "Err", f.hard)
    /\ used' = used + 1
    /\ acc' = EmptyConfig
    /\ UNCHANGED <<fs, sr, tw, calls, folded>>

\* A `?` of merge_config returns an error: the file cannot be read, is not
\* XML or has no fontconfig root (before the first fragment), or the
\* iterator yields an Err item.
Fail ==
    /\ InMerge
    /\ used < MaxItems
    /\ LET f == Top(stack)
           r == Returned(Pop(stack), "Err", stderr, f.at)
       IN  /\ stack' = r.stack
           /\ result' = r.result
           /\ stderr' = r.stderr
           /\ last' = Step("Fail", f.at, FALSE, "Err", f.hard)
    /\ used' = used + 1
    /\ UNCHANGED <<fs, sr, tw, acc, calls, folded>>

\* The iterator is exhausted: merge_config returns Ok(()).
EndOfParts ==
    /\ InMerge
    /\ LET f == Top(stack)
           r == Returned(Pop(stack), "Ok", stderr, f.at)
       IN  /\ stack' = r.stack
           /\ result' = r.result
           /\ stderr' = r.stderr
           /\ last' = Step("EndOfParts", f.at, FALSE, "Ok", f.hard)
    /\ UNCHANGED <<fs, sr, tw, acc, calls, used, folded>>

\* An Include whose path has no metadata (it does not exist), or is a
\* directory that read_dir cannot open: include returns the error at once.
IncludeFail ==
    /\ InMerge
    /\ used < MaxItems
    /\ \E ign \in BOOLEAN :
        LET f == Top(stack)
            r == IncludeReturned(stack, "Err", ign, stderr, NextPlace(f))
        IN  /\ stack' = r.stack
            /\ result' = r.result
            /\ stderr' = r.stderr
            /\ last' = Step("IncludeFail", NextPlace(f), ign, "Err", FALSE)
    /\ used' = used + 1
    /\ UNCHANGED <<fs, sr, tw, acc, calls, folded>>

\* An Include whose path is neither a file nor a directory: include does
\* nothing and returns Ok(()).
IncludeOther ==
    /\ InMerge
    /\ used < MaxItems
    /\ \E ign \in BOOLEAN :
        LET f == Top(stack)
            r == IncludeReturned(stack, "Ok", ign, stderr, NextPlace(f))
        IN  /\ stack' = r.stack
            /\ result' = r.result
            /\ stderr' = r.stderr
            /\ last' = Step("IncludeOther", NextPlace(f), ign, "Ok", FALSE)
    /\ used' = used + 1
    /\ UNCHANGED <<fs, sr, tw, acc, calls, folded>>

\* An Include whose path is a regular file: include calls merge_config on it.
IncludeFile ==
    /\ InMerge
    /\ used < MaxItems
    /\ \E ign \in BOOLEAN :
        LET f == Top(stack)
        IN  /\ stack' = Append(SetTop(stack, [f EXCEPT !.ign = ign]),
                               MergeFrame(NextPlace(f)))
            /\ last' = Step("IncludeFile", NextPlace(f), ign, "-", FALSE)
    /\ used' = used + 1
    /\ UNCHANGED <<fs, sr, tw, acc, result, stderr, calls, folded>>

\* An Include whose path is a directory: include collects its file and
\* symlink entries into a BinaryHeap and starts the loop over it.
IncludeDir ==
    /\ InMerge
    /\ used < MaxItems
    /\ \E ign \in BOOLEAN, order \in DirOrders :
        LET f == Top(stack)
        IN  /\ stack' = Append(SetTop(stack, [f EXCEPT !.ign = ign]),
                               DirFrame(NextPlace(f), order))
            /\ last' = Step("IncludeDir", NextPlace(f), ign, "-", FALSE)
    /\ used' = used + 1
    /\ UNCHANGED <<fs, sr, tw, acc, result, stderr, calls, folded>>

InDir == stack # <<>> /\ Top(stack).fn = "include"

\* The loop of include takes the next path: merge_config is called on it.
DirNext ==
    /\ InDir
    /\ LET d == Top(stack)
       IN  /\ d.next <= Len(d.order)
           /\ stack' = Append(SetTop(stack, [d EXCEPT !.next = @ + 1]),
                              MergeFrame(d.at \o <<Comp("entry", d.order[d.next])>>))
           /\ last' = Step("DirNext", d.at \o <<Comp("entry", d.order[d.next])>>,
                           FALSE, "-", FALSE)
    /\ UNCHANGED <<fs, sr, tw, acc, result, stderr, calls, used, folded>>

\* The loop of include is over: include returns Ok(()).
DirDone ==
    /\ InDir
    /\ LET d == Top(stack)
           r == IncludeReturned(Pop(stack), "Ok", Top(Pop(stack)).ign, stderr, d.at)
       IN  /\ d.next > Len(d.order)
           /\ stack' = r.stack
           /\ result' = r.result
           /\ stderr' = r.stderr
           /\ last' = Step("DirDone", d.at, FALSE, "Ok", FALSE)
    /\ UNCHANGED <<fs, sr, tw, acc, calls, used, folded>>

MergeNext ==
    \/ TopCall
    \/ FoldLeaf
    \/ Fail
    \/ EndOfParts
    \/ IncludeFail
    \/ IncludeOther
    \/ IncludeFile
    \/ IncludeDir
    \/ DirNext
    \/ DirDone

\* ------------------------------------------------------------------ read_document

\* Events quick_xml's read_event may yield in one call, Eof aside, in all.
MaxEvents == 3

\* Element names: the root, the six that read_document knows, two it does not.
Names ==
    {"fontconfig", "description", "match", "config", "dir", "cachedir", "include",
     "selectfont", "html"}

\* The DOCTYPE that read_document accepts.
FontconfigDocType == " fontconfig SYSTEM \"urn:fontconfig:fonts.dtd\""

\* DOCTYPE contents: the accepted one, and three that differ from it (the
\* system identifier fonts.dtd, no leading space, another root).
DocTypes ==
    {FontconfigDocType,
     " fontconfig SYSTEM \"fonts.dtd\"",
     "fontconfig SYSTEM \"urn:fontconfig:fonts.dtd\"",
     " html"}

Ev(ty, arg) == [ty |-> ty, arg |-> arg]

\* quick_xml::events::Event
Events ==
    {Ev(t, "") : t \in {"Decl", "Text", "Comment", "CData", "PI", "Eof"}}
    \cup {Ev("DocType", c) : c \in DocTypes}
    \cup {Ev(t, n) : t \in {"Start", "End", "Empty"}, n \in Names}

\* Document::default()
EmptyDocument ==
    [description |-> <<>>, dirs |-> <<>>, cache_dirs |-> <<>>, includes |-> <<>>,
     matches |-> <<>>, rescans |-> <<>>]

\* The reader before read_document is called.
SrIdle == sr = [stage |-> "idle"]

\* The tree-walk parser before it is called.
TwIdle == tw = [stage |-> "idle"]

\* read_document as it starts: stage is the loop it is in, n the events
\* its two loops have read, ev the last of them and evStage the loop that
\* read it, first the name of the first start tag read, seen the elements
\* whose sub-reader has succeeded with what each gave, ret the Document
\* under construction, out what it returned.
SrStart ==
    sr = [stage |-> "validate", n |-> 0, ev |-> Ev("none", ""), evStage |-> "none",
          first |-> "none", seen |-> <<>>, ret |-> "none",
          out |-> [st |-> "-", err |-> "-", doc |-> "none"]]

\* The element `name` has been read and has given val.
Seen(name, val) == [name |-> name, val |-> val]

\* read_document returns Err(e): the Document under construction is dropped.
SrErr(r, e) ==
    [r EXCEPT !.stage = "done", !.ret = "none",
              !.out = [st |-> "Err", err |-> e, doc |-> "none"]]

\* A todo!() is reached: read_document does not return, the thread panics.
SrPanic(r) ==
    [r EXCEPT !.stage = "done", !.ret = "none",
              !.out = [st |-> "Panic", err |-> "-", doc |-> "none"]]

\* read_document returns Ok(ret).
SrOk(r) ==
    [r EXCEPT !.stage = "done", !.ret = "none",
              !.out = [st |-> "Ok", err |-> "-", doc |-> r.ret]]

\* A mutant of DocTypeMatches: the leading space is not compared.
DocTypeMatchesTrimmed(c) ==
    c \in {FontconfigDocType, "fontconfig SYSTEM \"urn:fontconfig:fonts.dtd\""}

\* doc_type.as_ref() == b" fontconfig SYSTEM \"urn:fontconfig:fonts.dtd\""
DocTypeMatches(c) == c = FontconfigDocType

\* One turn of the loop of stage 1 on the event e.
Validate(r, e) ==
    CASE e.ty \in {"Decl", "Text", "Comment"} -> r
      [] e.ty = "DocType" ->
            IF DocTypeMatches(e.arg) THEN r ELSE SrErr(r, "UnmatchedDocType")
      [] e.ty = "Start" ->
            IF e.arg = "fontconfig"
            THEN [r EXCEPT !.stage = "body", !.ret = EmptyDocument]
            ELSE r
      [] OTHER -> SrErr(r, "NoFontconfig")

\* The event e is read in the loop the reader is in.
Read(r, e) ==
    [r EXCEPT !.n = @ + 1, !.ev = e, !.evStage = r.stage,
              !.first = IF @ = "none" /\ e.ty = "Start" THEN e.arg ELSE @]

\* Stage 1 reads an event.
SrValidate ==
    /\ sr.stage = "validate"
    /\ \E e \in Events :
        /\ e.ty # "Eof" => sr.n < MaxEvents
        /\ sr' = Validate(Read(sr, e), e)
    /\ UNCHANGED <<mergeVars, fs, tw>>

\* read_event fails in either loop: the `?` returns the XML error.
SrReadError ==
    /\ sr.stage \in {"validate", "body"}
    /\ sr.n < MaxEvents
    /\ sr' = SrErr(Read(sr, Ev("Error", "")), "Xml")
    /\ UNCHANGED <<mergeVars, fs, tw>>

\* The place of the element whose start tag was read last.
Here(r) == r.n

\* Stage 2 reads <description>: read_text gives its text or fails.
SrDescription ==
    /\ sr.stage = "body"
    /\ sr.n < MaxEvents
    /\ LET r == Read(sr, Ev("Start", "description"))
       IN  \/ sr' = [r EXCEPT !.ret.description = <<Here(r)>>,
                              !.seen = Append(@, Seen("description", <<Here(r)>>))]
           \/ sr' = SrErr(r, "Xml")
    /\ UNCHANGED <<mergeVars, fs, tw>>

\* Stage 2 reads <match>: read_match gives a Match, fails, or reaches the
\* todo!() of read_value (a test or edit whose value is not a known element).
SrMatch ==
    /\ sr.stage = "body"
    /\ sr.n < MaxEvents
    /\ LET r == Read(sr, Ev("Start", "match"))
       IN  \/ sr' = [r EXCEPT !.ret.matches = Append(@, Here(r)),
                              !.seen = Append(@, Seen("match", <<Here(r)>>))]
           \/ \E e \in {"Xml", "ParseError", "PropertyConvertError"} : sr' = SrErr(r, e)
           \/ sr' = SrPanic(r)
    /\ UNCHANGED <<mergeVars, fs, tw>>

\* Stage 2 reads <config>: read_config gives a Config, with the rescan
\* values it read, or fails; the Config is assigned to ret.config.
SrConfig ==
    /\ sr.stage = "body"
    /\ sr.n < MaxEvents
    /\ LET r == Read(sr, Ev("Start", "config"))
       IN  \/ \E rescans \in {<<>>, <<Here(r)>>} :
                sr' = [r EXCEPT !.ret.rescans = rescans,
                                !.seen = Append(@, Seen("config", rescans))]
           \/ \E e \in {"Xml", "InvalidFormat", "ParseIntError"} : sr' = SrErr(r, e)
    /\ UNCHANGED <<mergeVars, fs, tw>>

\* Stage 2 reads <dir>: its attributes and text are read, or one fails.
SrDir ==
    /\ sr.stage = "body"
    /\ sr.n < MaxEvents
    /\ LET r == Read(sr, Ev("Start", "dir"))
       IN  \/ sr' = [r EXCEPT !.ret.dirs = Append(@, Here(r)),
                              !.seen = Append(@, Seen("dir", <<Here(r)>>))]
           \/ \E e \in {"Xml", "ParseError"} : sr' = SrErr(r, e)
    /\ UNCHANGED <<mergeVars, fs, tw>>

\* Stage 2 reads <cachedir>: its attributes and text are read, or one fails.
SrCacheDir ==
    /\ sr.stage = "body"
    /\ sr.n < MaxEvents
    /\ LET r == Read(sr, Ev("Start", "cachedir"))
       IN  \/ sr' = [r EXCEPT !.ret.cache_dirs = Append(@, Here(r)),
                              !.seen = Append(@, Seen("cachedir", <<Here(r)>>))]
           \/ \E e \in {"Xml", "ParseError"} : sr' = SrErr(r, e)
    /\ UNCHANGED <<mergeVars, fs, tw>>

\* Stage 2 reads <include>: its attributes and text are read, or one fails
\* (InvalidFormat: ignore_missing is neither yes nor no).
SrInclude ==
    /\ sr.stage = "body"
    /\ sr.n < MaxEvents
    /\ LET r == Read(sr, Ev("Start", "include"))
       IN  \/ sr' = [r EXCEPT !.ret.includes = Append(@, Here(r)),
                              !.seen = Append(@, Seen("include", <<Here(r)>>))]
           \/ \E e \in {"Xml", "ParseError", "InvalidFormat"} : sr' = SrErr(r, e)
    /\ UNCHANGED <<mergeVars, fs, tw>>

\* Stage 2 reads the start tag of an element it does not know (a line on
\* stderr), or an event that is neither a start tag nor Eof: the loop goes on.
SrSkip ==
    /\ sr.stage = "body"
    /\ sr.n < MaxEvents
    /\ \E e \in Events :
        /\ e.ty # "Eof"
        /\ e.ty = "Start" => e.arg \in {"fontconfig", "selectfont", "html"}
        /\ sr' = Read(sr, e)
    /\ UNCHANGED <<mergeVars, fs, tw>>

\* Stage 2 reads Eof: read_document returns Ok(ret).
SrEof ==
    /\ sr.stage = "body"
    /\ sr' = SrOk(Read(sr, Ev("Eof", "")))
    /\ UNCHANGED <<mergeVars, fs, tw>>

InitStream == MergeIdle /\ SrStart /\ TwIdle

NextStream ==
    \/ SrValidate
    \/ SrReadError
    \/ SrDescription
    \/ SrMatch
    \/ SrConfig
    \/ SrDir
    \/ SrCacheDir
    \/ SrInclude
    \/ SrSkip
    \/ SrEof

SpecStream == InitStream /\ [][NextStream]_vars

Init == MergeIdle /\ SrIdle /\ TwIdle

Next == MergeNext

Spec == Init /\ [][Next]_vars

\* ------------------------------------------------------------------ sub-readers

\* read_document in its second loop, with the loops of read_match,
\* read_value and read_config: stage is the loop that reads the next event,
\* n the events read, eofIn the loop or call in which the input ended,
\* holder the test or edit whose value is awaited, cur the Match (its tests
\* and edits) or Config (its rescans) under construction.
SubStart ==
    sr = [stage |-> "body", n |-> 0, eofIn |-> "none", holder |-> "-", cur |-> <<>>,
          ret |-> EmptyDocument, out |-> [st |-> "-", err |-> "-", doc |-> "none"]]

\* An event other than Eof can be read: the input has not ended.
CanRead == sr.eofIn = "none" /\ sr.n < MaxEvents

\* An event is read.
SubRead(r) == [r EXCEPT !.n = @ + 1]

\* A `?` returns the error e to the caller of read_document.
SubErr(r, e) ==
    [r EXCEPT !.stage = "done", !.out = [st |-> "Err", err |-> e, doc |-> "none"]]

\* The input ends inside the call `where`, which fails with UnexpectedEof.
SubEofErr(r, where) == SubErr([r EXCEPT !.eofIn = where], "UnexpectedEof")

\* The loop of read_document reads <match>: read_match starts.
SubMatchStart ==
    /\ sr.stage = "body"
    /\ CanRead
    /\ sr' = [SubRead(sr) EXCEPT !.stage = "match", !.cur = <<>>]
    /\ UNCHANGED <<mergeVars, fs, tw>>

\* The loop of read_document reads <config>: read_config starts.
SubConfigStart ==
    /\ sr.stage = "body"
    /\ CanRead
    /\ sr' = [SubRead(sr) EXCEPT !.stage = "config", !.cur = <<>>]
    /\ UNCHANGED <<mergeVars, fs, tw>>

\* The loop of read_document reads <description>, <dir>, <cachedir> or
\* <include>: the element is read whole, or the reading of it fails.
SubElement ==
    /\ sr.stage = "body"
    /\ CanRead
    /\ LET r == SubRead(sr)
       IN  \/ sr' = [r EXCEPT !.ret.description = <<r.n>>]
           \/ sr' = [r EXCEPT !.ret.dirs = Append(@, r.n)]
           \/ sr' = [r EXCEPT !.ret.cache_dirs = Append(@, r.n)]
           \/ sr' = [r EXCEPT !.ret.includes = Append(@, r.n)]
           \/ \E e \in {"Xml", "ParseError", "InvalidFormat"} : sr' = SubErr(r, e)
           \/ sr' = SubEofErr(r, "read_text")
    /\ UNCHANGED <<mergeVars, fs, tw>>

\* The loop of read_document reads a start tag it does not know, or an
\* event that is neither a start tag nor Eof.
SubBodySkip ==
    /\ sr.stage = "body"
    /\ CanRead
    /\ sr' = SubRead(sr)
    /\ UNCHANGED <<mergeVars, fs, tw>>

\* The loop of read_document reads Eof: Ok(ret).
SubBodyEof ==
    /\ sr.stage = "body"
    /\ sr' = [sr EXCEPT !.stage = "done",
                        !.eofIn = IF @ = "none" THEN "body" ELSE @,
                        !.out = [st |-> "Ok", err |-> "-", doc |-> sr.ret]]
    /\ UNCHANGED <<mergeVars, fs, tw>>

\* The loop of read_match reads a text, a comment, a start tag other than
\* test and edit, an end tag other than </match>, or another event.
SubMatchSkip ==
    /\ sr.stage = "match"
    /\ CanRead
    /\ sr' = SubRead(sr)
    /\ UNCHANGED <<mergeVars, fs, tw>>

\* The loop of read_match reads <test> or <edit>: its attributes are parsed
\* and read_value starts.
SubHolder ==
    /\ sr.stage = "match"
    /\ CanRead
    /\ LET r == SubRead(sr)
       IN  \/ \E h \in {"test", "edit"} : sr' = [r EXCEPT !.stage = "value", !.holder = h]
           \/ \E e \in {"Xml", "ParseError"} : sr' = SubErr(r, e)
    /\ UNCHANGED <<mergeVars, fs, tw>>

\* read_match has left its loop: Ok(ret), which read_document pushes.
MatchRead(r) == [r EXCEPT !.stage = "body", !.ret.matches = Append(@, r.cur), !.cur = <<>>]

\* The loop of read_match reads </match>: break.
SubMatchEnd ==
    /\ sr.stage = "match"
    /\ CanRead
    /\ sr' = MatchRead(SubRead(sr))
    /\ UNCHANGED <<mergeVars, fs, tw>>

\* The loop of read_match reads Eof: break, as for </match>.
MatchEof(r) == MatchRead([r EXCEPT !.eofIn = "read_match"])

SubMatchEof ==
    /\ sr.stage = "match"
    /\ sr.eofIn = "none"
    /\ sr' = MatchEof(sr)
    /\ UNCHANGED <<mergeVars, fs, tw>>

\* read_value has returned a Value to the test or edit arm of read_match:
\* make_property, read_to_end to the end tag of the test or edit, push.
ValueRead(r) ==
    {[r EXCEPT !.stage = "match", !.cur = Append(@, r.holder), !.holder = "-"],
     SubErr(r, "PropertyConvertError"), SubErr(r, "Xml"), SubEofErr(r, "read_to_end")}

\* The loop of read_value reads <string>, <double>, <int>, <bool> or
\* <const>: read_text and, but for string, parse.
SubValueLeaf ==
    /\ sr.stage = "value"
    /\ CanRead
    /\ LET r == SubRead(sr)
       IN  \/ sr' \in ValueRead(r)
           \/ \E e \in {"Xml", "ParseFloatError", "ParseIntError", "ParseBoolError",
                        "ParseError"} : sr' = SubErr(r, e)
           \/ sr' = SubEofErr(r, "read_text")
    /\ UNCHANGED <<mergeVars, fs, tw>>

\* The loop of read_value reads <matrix>: four read_string(b"double") and
\* four parses.
SubValueMatrix ==
    /\ sr.stage = "value"
    /\ CanRead
    /\ LET r == SubRead(sr)
       IN  \/ sr' \in ValueRead(r)
           \/ \E e \in {"Xml", "InvalidFormat", "ParseFloatError"} : sr' = SubErr(r, e)
           \/ sr' = SubEofErr(r, "read_string")
    /\ UNCHANGED <<mergeVars, fs, tw>>

\* The loop of read_value reads another start tag: todo!().
SubValueUnknown ==
    /\ sr.stage = "value"
    /\ CanRead
    /\ sr' = [SubRead(sr) EXCEPT !.stage = "done",
                                 !.out = [st |-> "Panic", err |-> "-", doc |-> "none"]]
    /\ UNCHANGED <<mergeVars, fs, tw>>

\* The loop of read_value reads an event that is neither a start tag nor Eof.
SubValueSkip ==
    /\ sr.stage = "value"
    /\ CanRead
    /\ sr' = SubRead(sr)
    /\ UNCHANGED <<mergeVars, fs, tw>>

\* The loop of read_value reads Eof: Err(UnexpectedEof("Expect property")).
SubValueEof ==
    /\ sr.stage = "value"
    /\ sr.eofIn = "none"
    /\ sr' = SubEofErr(sr, "read_value")
    /\ UNCHANGED <<mergeVars, fs, tw>>

\* The loop of read_config reads <rescan>: read_string(b"int") and parse.
SubRescan ==
    /\ sr.stage = "config"
    /\ CanRead
    /\ LET r == SubRead(sr)
       IN  \/ sr' = [r EXCEPT !.cur = Append(@, r.n)]
           \/ \E e \in {"Xml", "InvalidFormat", "ParseIntError"} : sr' = SubErr(r, e)
           \/ sr' = SubEofErr(r, "read_string")
    /\ UNCHANGED <<mergeVars, fs, tw>>

\* The loop of read_config reads another start tag, an end tag other than
\* </config>, or another event.
SubConfigSkip ==
    /\ sr.stage = "config"
    /\ CanRead
    /\ sr' = SubRead(sr)
    /\ UNCHANGED <<mergeVars, fs, tw>>

\* The loop of read_config reads </config>: Ok(ret), which read_document
\* assigns to ret.config.
SubConfigEnd ==
    /\ sr.stage = "config"
    /\ CanRead
    /\ sr' = [SubRead(sr) EXCEPT !.stage = "body", !.ret.rescans = sr.cur, !.cur = <<>>]
    /\ UNCHANGED <<mergeVars, fs, tw>>

\* The loop of read_config reads Eof: Err(UnexpectedEof("Expected config")).
SubConfigEof ==
    /\ sr.stage = "config"
    /\ sr.eofIn = "none"
    /\ sr' = SubEofErr(sr, "read_config")
    /\ UNCHANGED <<mergeVars, fs, tw>>

InitSub == MergeIdle /\ SubStart /\ TwIdle

NextSub ==
    \/ SubMatchStart
    \/ SubConfigStart
    \/ SubElement
    \/ SubBodySkip
    \/ SubBodyEof
    \/ SubMatchSkip
    \/ SubHolder
    \/ SubMatchEnd
    \/ SubMatchEof
    \/ SubValueLeaf
    \/ SubValueMatrix
    \/ SubValueUnknown
    \/ SubValueSkip
    \/ SubValueEof
    \/ SubRescan
    \/ SubConfigSkip
    \/ SubConfigEnd
    \/ SubConfigEof

SpecSub == InitSub /\ [][NextSub]_vars

\* ------------------------------------------------------------------ include chains

\* Activations of merge_config and include nested in one another, in all.
MaxDepth == 4

\* Items the parse of one file yields before it ends, in all.
MaxParts == 2

\* The file of the top-level call (fonts.conf, written 0) and the files of
\* the directory conf.d, written as the entries' names are.
Files == {0} \cup EntryNames

\* An item of kind k; path is the file an Include names, 0 otherwise.
Item(k, path) == [kind |-> k, path |-> path]

\* The end of the iterator.
Eof == Item("Eof", 0)

\* What parse_config yields for a file, item by item: a match, an Err item,
\* an Include of one of the files, of the directory conf.d or of a path that
\* does not exist.
Items ==
    {Item(k, 0) : k \in {"Match", "Err", "IncludeDir", "IncludeMissing"}}
    \cup {Item("IncludeFile", f) : f \in Files}

\* The file f as it is when it is first read: nothing is known of it.
Unread == [items |-> <<>>, closed |-> FALSE]

\* What is known of the file f.
Known(f) == IF f \in DOMAIN fs THEN fs[f] ELSE Unread

\* The items the activation c of merge_config may get from its iterator
\* next: the file's item at that position if the file was read that far
\* before, any item otherwise; a file read twice yields the same items.
NextItems(c) ==
    LET k == Known(c.file)
    IN  IF c.idx < Len(k.items) THEN {k.items[c.idx + 1]}
        ELSE IF k.closed \/ Len(k.items) >= MaxParts THEN {Eof}
        ELSE Items \cup {Eof}

\* The files after the activation c has got the item x.
Reading(c, x) ==
    LET k == Known(c.file)
        k2 == IF c.idx < Len(k.items) THEN k
              ELSE IF x = Eof THEN [k EXCEPT !.closed = TRUE]
              ELSE [k EXCEPT !.items = Append(@, x)]
    IN  [f \in DOMAIN fs \cup {c.file} |-> IF f = c.file THEN k2 ELSE fs[f]]

\* An activation of merge_config on the file `file` at place `at`.
FileFrame(at, file) ==
    [fn |-> "merge_config", at |-> at, idx |-> 0, ign |-> FALSE, hard |-> FALSE,
     order |-> <<>>, next |-> 0, file |-> file]

\* An activation of include on the directory conf.d (no file: -1).
ConfDFrame(at, order) ==
    [fn |-> "include", at |-> at, idx |-> 0, ign |-> FALSE, hard |-> FALSE,
     order |-> order, next |-> 1, file |-> -1]

\* The orders in which include may visit conf.d: each of its entries is a file.
ConfDOrders ==
    {IterOrder(l) : l \in {m \in Listings :
        /\ Len(m) = Cardinality(EntryNames)
        /\ \A i \in 1..Len(m) : m[i].ty = "file"}}

InFile == stack # <<>> /\ Top(stack).fn = "merge_config"

\* The files that have an activation of merge_config in stk.
Running(stk) == {stk[i].file : i \in {j \in 1..Len(stk) : stk[j].fn = "merge_config"}}

\* A mutant of Recurse: a file that is being merged is not merged again,
\* the include of it returns Ok(()) at once.
RecurseOnce(stk, at, f) ==
    IF f \in Running(stk)
    THEN SetTop(stk, [Top(stk) EXCEPT !.idx = @ + 1])
    ELSE Append(stk, FileFrame(at, f))

\* include on a regular file: self.merge_config(include_path), on every
\* file alike.
Recurse(stk, at, f) == Append(stk, FileFrame(at, f))

\* The caller calls merge_config on a file, once.
CyTopCall ==
    /\ stack = <<>>
    /\ calls = 0
    /\ \E f \in Files : stack' = <<FileFrame(<<Comp("call", calls + 1)>>, f)>>
    /\ calls' = calls + 1
    /\ result' = "running"
    /\ last' = Step("TopCall", <<Comp("call", calls + 1)>>, FALSE, "-", FALSE)
    /\ UNCHANGED <<fs, sr, tw, acc, stderr, used, folded>>

\* The iterator yields a match: it is folded.
CyFold ==
    /\ InFile
    /\ LET c == Top(stack)
           x == Item("Match", 0)
           p == Part("Match", NextPlace(c))
       IN  /\ x \in NextItems(c)
           /\ fs' = Reading(c, x)
           /\ acc' = FoldPart(acc, p)
           /\ folded' = Append(folded, p)
           /\ stack' = SetTop(stack, [c EXCEPT !.idx = @ + 1])
           /\ last' = Step("FoldLeaf", p.src, FALSE, "-", FALSE)
    /\ UNCHANGED <<sr, tw, result, stderr, calls, used>>

\* The iterator yields an Err item: merge_config returns it.
CyFail ==
    /\ InFile
    /\ LET c == Top(stack)
           x == Item("Err", 0)
           r == Returned(Pop(stack), "Err", stderr, c.at)
       IN  /\ x \in NextItems(c)
           /\ fs' = Reading(c, x)
           /\ stack' = r.stack
           /\ result' = r.result
           /\ stderr' = r.stderr
           /\ last' = Step("Fail", c.at, FALSE, "Err", c.hard)
    /\ UNCHANGED <<sr, tw, acc, calls, used, folded>>

\* The iterator is exhausted: merge_config returns Ok(()).
CyEnd ==
    /\ InFile
    /\ LET c == Top(stack)
           r == Returned(Pop(stack), "Ok", stderr, c.at)
       IN  /\ Eof \in NextItems(c)
           /\ fs' = Reading(c, Eof)
           /\ stack' = r.stack
           /\ result' = r.result
           /\ stderr' = r.stderr
           /\ last' = Step("EndOfParts", c.at, FALSE, "Ok", c.hard)
    /\ UNCHANGED <<sr, tw, acc, calls, used, folded>>

\* The iterator yields an Include of a path that does not exist.
CyIncludeMissing ==
    /\ InFile
    /\ LET c == Top(stack)
           x == Item("IncludeMissing", 0)
           r == IncludeReturned(stack, "Err", FALSE, stderr, NextPlace(c))
       IN  /\ x \in NextItems(c)
           /\ fs' = Reading(c, x)
           /\ stack' = r.stack
           /\ result' = r.result
           /\ stderr' = r.stderr
           /\ last' = Step("IncludeFail", NextPlace(c), FALSE, "Err", FALSE)
    /\ UNCHANGED <<sr, tw, acc, calls, used, folded>>

\* The iterator yields an Include of a file: include calls merge_config on
\* it, whatever the activations already running.
CyIncludeFile ==
    /\ InFile
    /\ Len(stack) < MaxDepth
    /\ \E f \in Files :
        LET c == Top(stack)
            x == Item("IncludeFile", f)
        IN  /\ x \in NextItems(c)
            /\ fs' = Reading(c, x)
            /\ stack' = Recurse(stack, NextPlace(c), f)
            /\ last' = Step("IncludeFile", NextPlace(c), FALSE, "-", FALSE)
    /\ UNCHANGED <<sr, tw, acc, result, stderr, calls, used, folded>>

\* The iterator yields an Include of conf.d: include starts its loop.
CyIncludeDir ==
    /\ InFile
    /\ Len(stack) < MaxDepth
    /\ \E order \in ConfDOrders :
        LET c == Top(stack)
            x == Item("IncludeDir", 0)
        IN  /\ x \in NextItems(c)
            /\ fs' = Reading(c, x)
            /\ stack' = Append(stack, ConfDFrame(NextPlace(c), order))
            /\ last' = Step("IncludeDir", NextPlace(c), FALSE, "-", FALSE)
    /\ UNCHANGED <<sr, tw, acc, result, stderr, calls, used, folded>>

\* The loop of include takes the next entry: merge_config is called on it.
CyDirNext ==
    /\ InDir
    /\ Len(stack) < MaxDepth
    /\ LET d == Top(stack)
       IN  /\ d.next <= Len(d.order)
           /\ stack' = Append(SetTop(stack, [d EXCEPT !.next = @ + 1]),
                              FileFrame(d.at \o <<Comp("entry", d.order[d.next])>>,
                                        d.order[d.next]))
           /\ last' = Step("DirNext", d.at \o <<Comp("entry", d.order[d.next])>>,
                           FALSE, "-", FALSE)
    /\ UNCHANGED <<fs, sr, tw, acc, result, stderr, calls, used, folded>>

\* The loop of include is over: include returns Ok(()).
CyDirDone ==
    /\ InDir
    /\ LET d == Top(stack)
           r == IncludeReturned(Pop(stack), "Ok", FALSE, stderr, d.at)
       IN  /\ d.next > Len(d.order)
           /\ stack' = r.stack
           /\ result' = r.result
           /\ stderr' = r.stderr
           /\ last' = Step("DirDone", d.at, FALSE, "Ok", FALSE)
    /\ UNCHANGED <<fs, sr, tw, acc, calls, used, folded>>

NextCycle ==
    \/ CyTopCall
    \/ CyFold
    \/ CyFail
    \/ CyEnd
    \/ CyIncludeMissing
    \/ CyIncludeFile
    \/ CyIncludeDir
    \/ CyDirNext
    \/ CyDirDone

SpecCycle == Init /\ [][NextCycle]_vars

\* ------------------------------------------------------------------ parse_expr

\* Operator elements wrapped around an expression element, in all.
MaxNest == 2

\* The names the four operator enums recognise.
ListOps == {"times", "divide", "or", "and", "plus", "minus"}

UnaryOps == {"not", "ceil", "floor", "round", "trunc"}

BinaryOps ==
    {"eq", "not_eq", "less", "less_eq", "more", "more_eq", "contains", "not_contains"}

TernaryOps == {"if"}

\* The tag names that parse_expr handles itself.
LeafTags == {"string", "double", "int", "bool", "const", "name"}

\* A text node; txt tells whether the text parses as the value it stands for.
TextNode(txt) == [el |-> FALSE, tag |-> "", attr |-> "ok", txt |-> txt, kids |-> <<>>]

\* An element; attr tells whether its target attribute, if any, parses.
Element(tag, attr, kids) ==
    [el |-> TRUE, tag |-> tag, attr |-> attr, txt |-> "", kids |-> kids]

\* Node::text(): the text of the first child, if that is a text node.
NodeText(node) ==
    IF node.kids # <<>> /\ ~node.kids[1].el THEN node.kids[1].txt ELSE "none"

NoExpr == [t |-> "None", op |-> "", list |-> <<>>]

Ok(e) == [st |-> "ok", err |-> "-", e |-> e]

Err(k) == [st |-> "err", err |-> k, e |-> NoExpr]

\* todo!() or unwrap() on None: the call does not return.
Panic == [st |-> "panic", err |-> "-", e |-> NoExpr]

\* The error of str::parse for the value of a leaf element.
LeafError(tag) ==
    CASE tag = "double" -> "ParseFloatError"
      [] tag = "int"    -> "ParseIntError"
      [] tag = "bool"   -> "ParseBoolError"
      [] OTHER          -> "ParseError"

\* The Value variant of a leaf element.
LeafVariant(tag) ==
    CASE tag = "string" -> "String"
      [] tag = "double" -> "Double"
      [] tag = "int"    -> "Int"
      [] tag = "bool"   -> "Bool"
      [] tag = "const"  -> "Constant"
      [] tag = "name"   -> "Property"

\* The arms of parse_expr for string, double, int, bool, const and name.
ParseLeaf(node) ==
    IF node.tag = "name" /\ node.attr = "bad" THEN Err("ParseError")
    ELSE IF NodeText(node) = "none" THEN Err("InvalidFormat")
    ELSE IF node.tag # "string" /\ NodeText(node) = "bad" THEN Err(LeafError(node.tag))
    ELSE Ok([t |-> "Value", op |-> LeafVariant(node.tag), list |-> <<>>])

RECURSIVE Reverse(_)
Reverse(s) == IF s = <<>> THEN <<>> ELSE Reverse(Tail(s)) \o <<s[1]>>

\* A mutant of ElementChildren: the children are taken last first.
ElementChildrenReversed(node) == Reverse(SelectSeq(node.kids, LAMBDA n : n.el))

\* node.children() filtered by is_element().
ElementChildren(node) == SelectSeq(node.kids, LAMBDA n : n.el)

\* The end of parse_expr's last arm: the name is parsed as a list, unary,
\* binary and ternary operator in turn; todo!() if it is none of them.
OperatorNode(name, list) ==
    IF name \in ListOps THEN Ok([t |-> "List", op |-> name, list |-> list])
    ELSE IF name \in UnaryOps THEN Ok([t |-> "Unary", op |-> name, list |-> list])
    ELSE IF name \in BinaryOps THEN Ok([t |-> "Binary", op |-> name, list |-> list])
    ELSE IF name \in TernaryOps THEN Ok([t |-> "Ternary", op |-> name, list |-> list])
    ELSE Panic

RECURSIVE ParseExpr(_)
RECURSIVE Collect(_, _)

\* collect::<Result<Vec<_>>>() of parse_expr over the elements es: the
\* expressions, or the first error (a panic in one ends everything).
Collect(es, done) ==
    IF es = <<>> THEN Ok([t |-> "Vec", op |-> "", list |-> done])
    ELSE LET r == ParseExpr(es[1])
         IN  IF r.st = "ok" THEN Collect(Tail(es), Append(done, r.e)) ELSE r

\* parse_expr
ParseExpr(node) ==
    IF node.tag \in LeafTags THEN ParseLeaf(node)
    ELSE LET c == Collect(ElementChildren(node), <<>>)
         IN  IF c.st # "ok" THEN c
             ELSE IF node.tag = "matrix"
                  THEN Ok([t |-> "Matrix", op |-> "", list |-> c.e.list])
                  ELSE OperatorNode(node.tag, c.e.list)

\* parse_document on <root><match><test or edit>kids</..></match></root>:
\* the root's name is checked, the attributes of the test or edit are
\* parsed, its first element child is unwrapped and parsed, and the Match
\* is pushed.
ParseDocument(root, attr, kids) ==
    IF root # "fontconfig" THEN Err("NoFontconfig")
    ELSE IF attr = "bad" THEN Err("ParseError")
    ELSE IF ElementChildren([kids |-> kids]) = <<>> THEN Panic
    ELSE LET r == ParseExpr(ElementChildren([kids |-> kids])[1])
         IN  IF r.st = "ok"
             THEN Ok([t |-> "Document", op |-> "", list |-> <<r.e>>])
             ELSE r

\* The elements an expression starts from: the leaf elements with a text
\* that parses, a text that does not, or no text; a name whose target does
\* not parse; and the childless operators, matrix and unknown element.
Seeds ==
    {Element(t, "ok", k) :
        t \in LeafTags, k \in {<<>>, <<TextNode("ok")>>, <<TextNode("bad")>>}}
    \cup {Element("name", "bad", <<TextNode("ok")>>)}
    \cup {Element(t, "ok", <<>>) : t \in {"and", "not", "eq", "if", "matrix", "blend"}}

\* The children an operator element gives the expression n: n between
\* texts, n before or after an int.
Arrangements(n) ==
    {<<TextNode("ok"), n, TextNode("ok")>>,
     <<n, Element("int", "ok", <<TextNode("ok")>>)>>,
     <<Element("int", "ok", <<TextNode("ok")>>), n>>}

\* The tree-walk parser with the element node to parse, built in `nest` steps.
TwBuild(node, nest) ==
    [stage |-> "build", node |-> node, nest |-> nest, fn |-> "-",
     out |-> [st |-> "-", err |-> "-", e |-> NoExpr]]

\* The input grows: the element is put into an operator, matrix or unknown element.
TwWrap ==
    /\ tw.stage = "build"
    /\ tw.nest < MaxNest
    /\ \E t \in {"and", "not", "eq", "if", "matrix", "blend"}, k \in Arrangements(tw.node) :
        tw' = TwBuild(Element(t, "ok", k), tw.nest + 1)
    /\ UNCHANGED <<mergeVars, fs, sr>>

\* parse_expr is called on the element.
TwParseExpr ==
    /\ tw.stage = "build"
    /\ tw' = [tw EXCEPT !.stage = "done", !.fn = "parse_expr", !.out = ParseExpr(tw.node)]
    /\ UNCHANGED <<mergeVars, fs, sr>>

\* parse_document is called on a document whose one test (or edit) holds the
\* element after a text, or holds a text only.
TwParseDocument ==
    /\ tw.stage = "build"
    /\ \E root \in {"fontconfig", "html"}, attr \in {"ok", "bad"},
          kids \in {<<TextNode("ok")>>, <<TextNode("ok"), tw.node>>} :
        tw' = [tw EXCEPT !.stage = "done",
                         !.fn = IF Len(kids) = 1 THEN "parse_document (no value)"
                                ELSE "parse_document",
                         !.out = ParseDocument(root, attr, kids)]
    /\ UNCHANGED <<mergeVars, fs, sr>>

InitTree == MergeIdle /\ SrIdle /\ \E n \in Seeds : tw = TwBuild(n, 0)

NextTree ==
    \/ TwWrap
    \/ TwParseExpr
    \/ TwParseDocument

SpecTree == InitTree /\ [][NextTree]_vars

\* ================================================================== claims
\* ------------------------------------------------------------------ places

\* The first position at which the places p and q differ (0 if none).
FirstDiff(p, q) ==
    LET n == IF Len(p) < Len(q) THEN Len(p) ELSE Len(q)
        D == {k \in 1..n : p[k] # q[k]}
    IN  IF D = {} THEN 0 ELSE CHOOSE k \in D : \A m \in D : k <= m

\* p and q part ways at two entries of one directory, p's name after q's.
EntryAfter(p, q) ==
    LET k == FirstDiff(p, q)
    IN  k > 0 /\ p[k].k = "entry" /\ q[k].k = "entry" /\ p[k].n > q[k].n

\* p and q part ways at two fragments of one file (or two top-level calls),
\* p's after q's in document order.
PartAfter(p, q) ==
    LET k == FirstDiff(p, q)
    IN  k > 0 /\ p[k].k # "entry" /\ q[k].k # "entry" /\ p[k].n > q[k].n

\* No element of the list s stands before one that R puts before it.
Ordered(s, R(_, _)) == \A i, j \in 1..Len(s) : i < j => ~R(s[i], s[j])

\* The places of the fragments of the kinds K in the history h.
RECURSIVE Srcs(_, _)
Srcs(h, K) ==
    IF h = <<>> THEN <<>>
    ELSE IF h[1].kind \in K THEN <<h[1].src>> \o Srcs(Tail(h), K)
         ELSE Srcs(Tail(h), K)

\* The part of the history h after its last ResetDirs.
RECURSIVE AfterLastReset(_)
AfterLastReset(h) ==
    IF \E i \in 1..Len(h) : h[i].kind = "ResetDirs"
    THEN AfterLastReset(Tail(h))
    ELSE h

\* ------------------------------------------------------------------ C1

\* C1 (as claimed): the matches and aliases that the entries of one directory
\* include contribute stand in the accumulator in ascending order of the
\* entries' names.
C1_NameOrder ==
    /\ Ordered(acc.matches, EntryAfter)
    /\ Ordered(acc.aliases, EntryAfter)

\* ------------------------------------------------------------------ C2

HardFailStep(below) ==
    \/ /\ below = 0
       /\ last'.op = "IncludeFail"
       /\ ~last'.ign
    \/ /\ below = 1
       /\ last'.op = "Fail"
       /\ Len(stack) >= 2
       /\ stack[Len(stack) - 1].fn = "merge_config"
       /\ ~stack[Len(stack) - 1].ign

C3_IgnoredMissing ==
    [][(last'.op = "IncludeFail" /\ last'.ign) =>
        /\ acc' = acc
        /\ stderr' = stderr
        /\ result' = result
        /\ stack' = SetTop(stack, [Top(stack) EXCEPT !.idx = @ + 1])]_vars

\* The second fragment of a file, an Include with ignore_missing of a path
\* that does not exist, has just been passed, after a fragment was folded.
C3_Witness ==
    /\ last.op = "IncludeFail"
    /\ last.ign
    /\ Len(folded) = 1
    /\ Len(stack) = 1
    /\ Top(stack).idx = 2
    /\ result = "running"

\* ------------------------------------------------------------------ C4

\* C4: the directory list holds the Dir fragments folded after the last
\* ResetDirs, in fold order, and every other list holds all the fragments of
\* its kind folded so far: a ResetDirs takes nothing from them.
C4_ResetDirs ==
    /\ acc.dirs = Srcs(AfterLastReset(folded), {"Dir"})
    /\ acc.cache_dirs = Srcs(folded, {"CacheDir"})
    /\ acc.remap_dirs = Srcs(folded, {"RemapDir"})
    /\ acc.matches = Srcs(folded, {"Match"})
    /\ acc.aliases = Srcs(folded, {"Alias"})
    /\ acc.select_fonts = Srcs(folded, {"SelectFont"})
    /\ acc.rescans = Srcs(folded, {"Config"})
    /\ acc.blanks = Srcs(folded, {"Config"})

\* A ResetDirs has just emptied a directory list that held a directory,
\* while another list of the accumulator holds a fragment.
C4_Witness ==
    /\ last.op = "FoldLeaf"
    /\ Len(folded) = 3
    /\ folded[3].kind = "ResetDirs"
    /\ \E i \in 1..2 : folded[i].kind = "Dir"
    /\ \E i \in 1..2 : folded[i].kind \notin {"Dir", "ResetDirs", "Description"}
    /\ acc.dirs = <<>>

\* ------------------------------------------------------------------ C5

\* C5: the matches and the aliases stand in the accumulator in depth-first
\* document order: of two of them, the one whose place comes first where
\* their places part ways (at two fragments of one file) was appended first.
C5_DepthFirst ==
    /\ Ordered(acc.matches, PartAfter)
    /\ Ordered(acc.aliases, PartAfter)

\* A match of a file included by the first fragment of a file stands before
\* the match that is the second fragment of the including file.
C5_Witness ==
    /\ Len(acc.matches) = 2
    /\ Len(acc.matches[1]) = 3
    /\ Len(acc.matches[2]) = 2
    /\ acc.matches[1][2] = Comp("part", 1)
    /\ acc.matches[2][2] = Comp("part", 2)
    /\ acc.matches[1][3].k = "part"

\* ------------------------------------------------------------------ C6

\* merge_config on an entry of a directory returns an error at this step.
EntryFailStep ==
    /\ last'.op = "Fail"
    /\ Len(stack) >= 2
    /\ stack[Len(stack) - 1].fn = "include"

\* C6: the failure of merge_config on an entry of an included directory is
\* swallowed: nothing is printed or returned, the loop over the directory
\* stays as it is, with its remaining entries to visit, and when the loop
\* is over the include has succeeded and the including file goes on.
C6_EntryFailureSwallowed ==
    [][/\ EntryFailStep =>
            /\ stack' = Pop(stack)
            /\ stderr' = stderr
            /\ acc' = acc
            /\ result' = result
       /\ last'.op = "DirDone" =>
            LET n == Len(stack) - 1
            IN  /\ Top(stack).next = Len(Top(stack).order) + 1
                /\ stderr' = stderr
                /\ result' = result
                /\ Len(stack') = n
                /\ stack'[n].idx = stack[n].idx + 1]_vars

\* The first entry of a directory failed, the second was merged and folded
\* a fragment, and the file that includes the directory returned Ok.
C6_Witness ==
    /\ result = "Ok"
    /\ Len(folded) = 1
    /\ Len(folded[1].src) = 4
    /\ folded[1].src[3] = Comp("entry", 5)
    /\ used = 3

\* ------------------------------------------------------------------ C7

\* C7: a DOCTYPE read before the root element whose content is not exactly
\* the fontconfig DTD reference ends read_document with UnmatchedDocType,
\* and no Document is returned.
C7_UnmatchedDocType ==
    (sr.stage # "idle" /\ sr.evStage = "validate" /\ sr.ev.ty = "DocType"
        /\ sr.ev.arg # " fontconfig SYSTEM \"urn:fontconfig:fonts.dtd\"") =>
        /\ sr.stage = "done"
        /\ sr.out = [st |-> "Err", err |-> "UnmatchedDocType", doc |-> "none"]
        /\ sr.ret = "none"

\* After a declaration, a DOCTYPE that lacks only the leading space is read.
C7_Witness ==
    /\ sr.stage = "done"
    /\ sr.n = 2
    /\ sr.ev = Ev("DocType", "fontconfig SYSTEM \"urn:fontconfig:fonts.dtd\"")
    /\ sr.out.err = "UnmatchedDocType"

\* ------------------------------------------------------------------ C8

\* C8 (as claimed): before the fontconfig start tag, end of input and every
\* event that is not a declaration, a text, a comment or a DOCTYPE end
\* read_document with NoFontconfig; and a document whose first start tag is
\* not fontconfig is not read to the end without NoFontconfig.
C8_NoFontconfig ==
    /\ (sr.stage # "idle" /\ sr.evStage = "validate"
            /\ sr.ev.ty \notin {"Decl", "Text", "Comment", "DocType", "Error"}
            /\ sr.ev # Ev("Start", "fontconfig")) =>
            /\ sr.stage = "done"
            /\ sr.out = [st |-> "Err", err |-> "NoFontconfig", doc |-> "none"]
    /\ (sr.stage = "done" /\ sr.first \notin {"none", "fontconfig"}) =>
            sr.out.st # "Ok"

\* ------------------------------------------------------------------ C9

\* The number of elements on the longest chain of elements from node down.
RECURSIVE ElemDepth(_)
ElemDepth(node) ==
    LET D == {ElemDepth(node.kids[i]) : i \in {j \in 1..Len(node.kids) : node.kids[j].el}}
    IN  1 + (IF D = {} THEN 0 ELSE CHOOSE d \in D : \A x \in D : x <= d)

\* The number of expressions on the longest chain from e down.
RECURSIVE ExprDepth(_)
ExprDepth(e) ==
    LET D == {ExprDepth(e.list[i]) : i \in 1..Len(e.list)}
    IN  1 + (IF D = {} THEN 0 ELSE CHOOSE d \in D : \A x \in D : x <= d)

\* The positions of the element children of node, in source order.
ElemPositions(node) == {i \in 1..Len(node.kids) : node.kids[i].el}

\* The position among node's children of its k-th element child.
ElemAt(node, k) ==
    CHOOSE i \in ElemPositions(node) :
        Cardinality({j \in ElemPositions(node) : j <= i}) = k

\* C9: when parse_expr succeeds on an element that is no leaf and no matrix,
\* the result is an operator node of the first family among list, unary,
\* binary, ternary that knows the tag; its children are the results of
\* parse_expr on the element children, in source order, the other children
\* skipped; and it is as deep as the elements were nested.
C9_OperatorNode ==
    (tw.stage = "done" /\ tw.fn = "parse_expr" /\ tw.out.st = "ok"
        /\ tw.node.tag \notin LeafTags \cup {"matrix"}) =>
        LET e == tw.out.e
            n == Cardinality(ElemPositions(tw.node))
        IN  /\ e.t = (IF tw.node.tag \in ListOps THEN "List"
                      ELSE IF tw.node.tag \in UnaryOps THEN "Unary"
                      ELSE IF tw.node.tag \in BinaryOps THEN "Binary"
                      ELSE "Ternary")
            /\ e.op = tw.node.tag
            /\ Len(e.list) = n
            /\ \A k \in 1..n : Ok(e.list[k]) = ParseExpr(tw.node.kids[ElemAt(tw.node, k)])
            /\ ExprDepth(e) = ElemDepth(tw.node)

\* A list operator with a text and two element children, the first a unary
\* operator over a leaf, has been parsed to an expression three deep.
C9_Witness ==
    /\ tw.stage = "done"
    /\ tw.fn = "parse_expr"
    /\ tw.out.st = "ok"
    /\ tw.node.tag = "and"
    /\ Len(tw.node.kids) = 2
    /\ tw.node.kids[1].tag = "not"
    /\ Len(tw.node.kids[1].kids) = 3
    /\ tw.out.e.list[1].t = "Unary"
    /\ tw.out.e.list[2].op = "Int"
    /\ ExprDepth(tw.out.e) = 3

\* ------------------------------------------------------------------ C10

\* C10 (as claimed): the tree-walk parse of every input ends with a result
\* or an Error value; it never aborts.
C10_NoAbort == tw.stage = "done" => tw.out.st \in {"ok", "err"}

\* ------------------------------------------------------------------ C11

\* A file has two activations of merge_config in stk, one inside the other.
Cyclic(stk) ==
    \E i, j \in 1..Len(stk) :
        /\ i < j
        /\ stk[i].fn = "merge_config"
        /\ stk[j].fn = "merge_config"
        /\ stk[i].file = stk[j].file

\* The step reads, in the running merge_config, an Include of a file that
\* has an activation of merge_config already.
Revisit ==
    /\ InFile
    /\ Top(stack).file \in DOMAIN fs'
    /\ Top(stack).idx < Len(fs'[Top(stack).file].items)
    /\ fs'[Top(stack).file].items[Top(stack).idx + 1].kind = "IncludeFile"
    /\ fs'[Top(stack).file].items[Top(stack).idx + 1].path \in Running(stack)
    /\ stack' # stack

\* C11: an Include of a file that is being merged starts a new merge_config
\* inside the running ones, nothing detects it; once a file is being merged
\* twice it is for ever, so the call does not return; a call that returns
\* had no file merged inside itself.
C11_NoCycleDetection ==
    /\ [][Revisit =>
            stack' = Append(stack,
                FileFrame(NextPlace(Top(stack)),
                          fs'[Top(stack).file].items[Top(stack).idx + 1].path))]_vars
    /\ [][Cyclic(stack) => Cyclic(stack') /\ result' = "running"]_vars
    /\ [][(stack # <<>> /\ stack' = <<>>) => ~Cyclic(stack)]_vars

\* fonts.conf includes 05-b.conf and 05-b.conf includes fonts.conf: the two
\* are entered in turn as deep as the activations go.
C11_Witness ==
    /\ Len(stack) = MaxDepth
    /\ result = "running"
    /\ \A i \in 1..Len(stack) :
        /\ stack[i].fn = "merge_config"
        /\ stack[i].file = IF i % 2 = 1 THEN 0 ELSE 5

\* ------------------------------------------------------------------ C12

RECURSIVE Replay(_, _)
\* The accumulator a after the fragments h are folded into it in order.
Replay(a, h) == IF h = <<>> THEN a ELSE Replay(FoldPart(a, h[1]), Tail(h))

\* The fragments of the file at place `at` among h.
FromFile(h, at) ==
    SelectSeq(h, LAMBDA p : SubSeq(p.src, 1, Len(p.src) - 1) = at)

\* C12: the accumulator always holds every fragment folded so far, failed
\* files' included; the step in which merge_config fails on a file changes
\* nothing in the accumulator, leaves the fragments 1..k-1 of the file
\* folded, and ends the file's activation; a fragment is folded only by the
\* running activation, as its next one, so none of the file follows.
C12_NoRollback ==
    /\ [](acc = Replay(EmptyConfig, folded))
    /\ [][last'.op = "Fail" =>
            /\ acc' = acc
            /\ folded' = folded
            /\ \A i \in 1..Len(FromFile(folded', Top(stack).at)) :
                    FromFile(folded', Top(stack).at)[i].src[Len(Top(stack).at) + 1].n
                        <= Top(stack).idx
            /\ \A i \in 1..Len(stack') : stack'[i].at # Top(stack).at]_vars
    /\ [][folded' # folded =>
            /\ InMerge
            /\ Len(folded') = Len(folded) + 1
            /\ SubSeq(folded', 1, Len(folded)) = folded
            /\ folded'[Len(folded')].src = NextPlace(Top(stack))]_vars

\* The top-level merge_config has returned an error at the third fragment
\* of its file; the two matches before it are in the accumulator.
C12_Witness ==
    /\ last.op = "Fail"
    /\ last.at = <<Comp("call", 1)>>
    /\ result = "Err"
    /\ Len(folded) = 2
    /\ acc.matches = <<last.at \o <<Comp("part", 1)>>, last.at \o <<Comp("part", 2)>>>>

\* ------------------------------------------------------------------ C13

RECURSIVE Results(_, _)
\* What the elements named `name` among h have given, one after the other.
Results(h, name) ==
    IF h = <<>> THEN <<>>
    ELSE (IF h[1].name = name THEN h[1].val ELSE <<>>) \o Results(Tail(h), name)

\* C13 (as claimed): the Document that read_document returns holds what
\* every description, match, config, dir, cachedir and include element has
\* given, in document order; two config elements give the rescans of both.
C13_AllAppended ==
    (sr.stage = "done" /\ sr.out.st = "Ok") =>
        /\ sr.out.doc.rescans = Results(sr.seen, "config")
        /\ sr.out.doc.matches = Results(sr.seen, "match")
        /\ sr.out.doc.dirs = Results(sr.seen, "dir")
        /\ sr.out.doc.cache_dirs = Results(sr.seen, "cachedir")
        /\ sr.out.doc.includes = Results(sr.seen, "include")
        /\ sr.out.doc.description = Results(sr.seen, "description")

\* ------------------------------------------------------------------ C14

\* The result e of a numeric leaf element (double or int).
Numeric(e) == e.t = "Value" /\ e.op \in {"Double", "Int"}

RECURSIVE MatricesOfFour(_)
\* Every matrix in e has four sub-expressions, each a numeric leaf.
MatricesOfFour(e) ==
    /\ e.t = "Matrix" =>
        /\ Len(e.list) = 4
        /\ \A i \in 1..Len(e.list) : Numeric(e.list[i])
    /\ \A i \in 1..Len(e.list) : MatricesOfFour(e.list[i])

\* C14 (as claimed): every matrix in what parse_expr or parse_document
\* returns has exactly four sub-expressions, each numeric.
C14_MatrixOfFour ==
    (tw.stage = "done" /\ tw.out.st = "ok") => MatricesOfFour(tw.out.e)

\* ------------------------------------------------------------------ C15

\* C15 (as claimed): when the input ends in read_value, in read_config or in
\* read_match, or in a call one of them makes, read_document returns an
\* UnexpectedEof error and no Document.
C15_EofIsFatal ==
    sr.eofIn \in {"read_value", "read_config", "read_match", "read_string",
                  "read_to_end"} =>
        /\ sr.stage = "done"
        /\ sr.out.st = "Err"
        /\ sr.out.err = "UnexpectedEof"
        /\ sr.out.doc = "none"

====
